---- MODULE Spec2Model ----
(***************************************************************************)
(* Model of the cached request handler of next-boost (src/handler.ts).     *)
(*                                                                         *)
(* wrap() returns an async request listener.  Between two awaits the       *)
(* listener runs without interruption, so every request is a sequence of   *)
(* three atomic steps:                                                     *)
(*   Begin        lines 80-101  classify, derive the key, call serveCache  *)
(*   AfterResolve lines 102-109 stop, or add the key to SYNC_LOCK and call *)
(*                              renderer.render                            *)
(*   RenderReturn lines 112-134 serve, persist or delete, release the key  *)
(* renderer.render may also reject (RenderThrow): the listener's promise   *)
(* rejects and nothing after line 109 runs.                                *)
(***************************************************************************)
EXTENDS Integers, Sequences, FiniteSets, TLC

\* Number of request slots: requests that can be in flight at once.
NReq == 2

Reqs == 1..NReq

VARIABLES
    conf,       \* the HandlerConfig given to wrap
    env,        \* what this deployment sees: the requests clients send and
                \* the responses the Render Worker gives
    cache,      \* the Cache Store: record name -> [value, ttl, age]
    SYNC_LOCK,  \* the process-wide set of keys
    pc,         \* per request: where the listener is
    req,        \* per request: the IncomingMessage (method, url, forced header)
    key,        \* per request: local `key`
    ttl,        \* per request: local `ttl`
    status,     \* per request: local `status`
    stop,       \* per request: local `stop`
    sent,       \* per request: responses written to `res`, in order
    rv,         \* per request: what renderer.render returned
    renders,    \* per request: number of renderer.render invocations
    url,        \* per request: req.url as the listener has left it
    args        \* per request: what was handed to plainHandler or to
                \* renderer.render

vars == <<conf, env, cache, SYNC_LOCK, pc, req, key, ttl, status, stop, sent, rv, renders, url, args>>

-----------------------------------------------------------------------------
(* Values *)

NoParams == << >>
P1(v) == <<[n |-> "p1", v |-> v]>>
P2(v) == <<[n |-> "p2", v |-> v]>>

\* A URL: a path and its query parameters in order.
Url(p, q) == [path |-> p, q |-> q]

\* A request: x-cache-status: update is the only header the listener reads.
Request(m, u, f) == [method |-> m, url |-> u, forced |-> f]

\* Bytes: the text they carry and how many gzip layers wrap it.
Bytes(d, n) == [data |-> d, gz |-> n]
EmptyBody == Bytes("", 0)
BodyLength(b) == IF b.data = "" /\ b.gz = 0 THEN 0 ELSE 1

\* What the Render Worker can answer (the mock's pages: /hello, /hello-zip,
\* /hello-empty, /hello-304, and a 404 page).
Response(c, h, b) == [statusCode |-> c, headers |-> h, body |-> b]
R200A == Response(200, {"x-uid"}, Bytes("A", 0))
R200Z == Response(200, {"content-encoding"}, Bytes("B", 1))
R200E == Response(200, {}, EmptyBody)
R304 == Response(304, {}, EmptyBody)
R404 == Response(404, {}, Bytes("N", 0))

NoResponse == Response(0, {}, EmptyBody)
NoRequest == Request("GET", Url("", NoParams), FALSE)
NoKey == [url |-> Url("", NoParams), sfx |-> ""]
NoArgs == [to |-> "none", path |-> Url("", NoParams), method |-> ""]

\* Configurations: the rule list and the hooks.
HelloRule == [regex |-> "/hello.*", ttl |-> 1]
AnyRule == [regex |-> ".*", ttl |-> 2]
ExactRule == [regex |-> "^/hello$", ttl |-> 1]
Conf(rules, pf, ck, hf) ==
    [rules |-> rules, paramFilter |-> pf, cacheKey |-> ck, headersFilter |-> hf]

\* A deployment: a configuration, the requests its clients send and the
\* responses its Render Worker gives.
Deployment(c, rq, rs) == [conf |-> c, requests |-> rq, responses |-> rs]

\* One rule, no hooks; one key, forced and unforced; renders that are 200 or
\* not, empty or not.
DeployBasic ==
    Deployment(Conf(<<HelloRule>>, "none", "none", "none"),
               { Request("GET", Url("/hello", NoParams), FALSE),
                 Request("GET", Url("/hello", NoParams), TRUE),
                 Request("POST", Url("/hello", NoParams), FALSE),
                 Request("GET", Url("/unknown", NoParams), FALSE) },
               {R200A, R200Z, R200E, R304, R404})

\* Two rules, HEAD requests, two keys with different TTLs.
DeployTwoRules ==
    Deployment(Conf(<<HelloRule, AnyRule>>, "none", "none", "none"),
               { Request("HEAD", Url("/hello", NoParams), FALSE),
                 Request("GET", Url("/unknown", NoParams), FALSE),
                 Request("POST", Url("/unknown", NoParams), TRUE) },
               {R200A})

\* No rule at all.
DeployNoRules ==
    Deployment(Conf(<< >>, "none", "none", "none"),
               { Request("GET", Url("/hello", NoParams), FALSE),
                 Request("HEAD", Url("/hello", P1(1)), TRUE),
                 Request("POST", Url("/hello", NoParams), FALSE) },
               {R200A})

\* A headersFilter that removes content-encoding from the persisted headers.
DeployDropEncoding ==
    Deployment(Conf(<<HelloRule>>, "none", "none", "dropEncoding"),
               { Request("GET", Url("/hello", NoParams), FALSE) },
               {R200A, R200Z})

Deployments == {DeployBasic, DeployTwoRules, DeployNoRules, DeployDropEncoding}

\* A paramFilter that rejects p1 (the tests' p => p !== 'p1'), under a rule
\* that matches the bare path only.
DeployParamFilter ==
    Deployment(Conf(<<ExactRule>>, "dropP1", "none", "none"),
               { Request("GET", Url("/hello", P1(1)), FALSE),
                 Request("GET", Url("/hello", P1(2)), FALSE),
                 Request("GET", Url("/hello", P1(1)), TRUE),
                 Request("GET", Url("/hello", P2(1) \o P1(1)), FALSE) },
               {R200A})

\* A cacheKey override (the tests' req.url + '_001') next to a paramFilter.
DeployCacheKey ==
    Deployment(Conf(<<HelloRule>>, "dropP1", "suffix", "none"),
               { Request("GET", Url("/hello", P1(1)), FALSE),
                 Request("GET", Url("/hello", NoParams), FALSE) },
               {R200A})

\* A headersFilter that removes x-uid from the persisted headers.
DeployDropUid ==
    Deployment(Conf(<<HelloRule>>, "none", "none", "dropUid"),
               { Request("GET", Url("/hello", NoParams), FALSE),
                 Request("GET", Url("/hello", NoParams), TRUE) },
               {R200A, R200Z})

HookDeployments == {DeployParamFilter, DeployCacheKey, DeployDropUid, DeployDropEncoding}

-----------------------------------------------------------------------------
(* Helpers of utils and of the hooks *)

\* conf.paramFilter(name): does the parameter survive.
ParamFilter(f, name) ==
    CASE f = "dropP1" -> name # "p1"
      [] f = "all"    -> TRUE
      [] OTHER        -> TRUE

\* utils.filterUrl(url, filter)
filterUrl(u, f) ==
    IF f = "none" THEN u
    ELSE [u EXCEPT !.q = SelectSeq(@, LAMBDA p : ParamFilter(f, p.n))]

\* conf.cacheKey(req): the test's builder, req.url + '_001'.
CacheKeyBuilder(r) == [url |-> r.url, sfx |-> "_001"]

\* A URL used as a key string.
UrlKey(u) == [url |-> u, sfx |-> ""]

\* new RegExp(regex).test(url)
RegexTest(regex, u) ==
    CASE regex = "/hello.*" -> u.path = "/hello"
      [] regex = "^/hello$" -> u.path = "/hello" /\ u.q = NoParams
      [] regex = ".*"       -> TRUE
      [] OTHER              -> FALSE

\* conf.headersFilter(headers)
HeadersFilter(f, headers) ==
    CASE f = "dropUid"      -> headers \ {"x-uid"}
      [] f = "dropEncoding" -> headers \ {"content-encoding"}
      [] OTHER              -> headers

\* utils.isZipped(headers)
isZipped(headers) == "content-encoding" \in headers

\* zlib.gzipSync(body)
gzipSync(b) == [b EXCEPT !.gz = @ + 1]

\* toBuffer(o): Buffer.from(JSON.stringify(o))
toBuffer(o) == [json |-> o]

\* What a client reads from a response: one layer is undone when the
\* response declares an encoding.
ClientText(resp) ==
    LET n == IF isZipped(resp.headers) THEN resp.body.gz - 1 ELSE resp.body.gz
    IN  IF n = 0 THEN resp.body.data ELSE "garbled"

-----------------------------------------------------------------------------
(* matchRule *)

RECURSIVE FirstMatch(_, _, _)
FirstMatch(rules, u, i) ==
    IF i > Len(rules) THEN [matched |-> FALSE, ttl |-> 0]
    ELSE IF RegexTest(rules[i].regex, u) THEN [matched |-> TRUE, ttl |-> rules[i].ttl]
    ELSE FirstMatch(rules, u, i + 1)

\* matchRule without the method test of lines 16-17.
matchRuleAnyMethod(c, r) == FirstMatch(c.rules, r.url, 1)

matchRule(c, r) ==
    IF r.method \notin {"GET", "HEAD"} THEN [matched |-> FALSE, ttl |-> -1]
    ELSE FirstMatch(c.rules, r.url, 1)

-----------------------------------------------------------------------------
(* The Cache Store *)

BodyKey(k) == <<"body", k>>
HeaderKey(k) == <<"header", k>>

CacheHas(c, name) ==
    IF name \notin DOMAIN c THEN "miss"
    ELSE IF c[name].age < c[name].ttl THEN "hit" ELSE "stale"

CacheSet(c, name, value, t) ==
    [x \in DOMAIN c \cup {name} |->
        IF x = name THEN [value |-> value, ttl |-> t, age |-> 0] ELSE c[x]]

CacheDel(c, name) == [x \in DOMAIN c \ {name} |-> c[x]]

\* Time passes: every entry that is not yet stale grows older.
Tick ==
    /\ \E x \in DOMAIN cache : cache[x].age < cache[x].ttl
    /\ cache' = [x \in DOMAIN cache |->
                    IF cache[x].age < cache[x].ttl
                    THEN [cache[x] EXCEPT !.age = @ + 1] ELSE cache[x]]
    /\ UNCHANGED <<conf, env, SYNC_LOCK, pc, req, key, ttl, status, stop, sent, rv, renders, url, args>>

-----------------------------------------------------------------------------
(* serveCache (cache-manager) and serve (utils) *)

\* A body record without its header record: what a set that threw between
\* the two leaves behind, and a state the store is not required to detect.
Torn(c, k) == BodyKey(k) \in DOMAIN c /\ HeaderKey(k) \notin DOMAIN c

\* The response serveCache writes from the stored records (no stored headers
\* when the header record is not there).
CachedResponse(c, k) ==
    LET h == IF HeaderKey(k) \in DOMAIN c THEN c[HeaderKey(k)].value.json ELSE {}
    IN  [src |-> "cache", statusCode |-> 200,
         headers |-> IF isZipped(h) THEN h ELSE h \cup {"content-encoding"},
         body |-> c[BodyKey(k)].value]

serveCache(c, lock, k, forced) ==
    IF forced THEN [status |-> "force", stop |-> FALSE, sent |-> << >>]
    ELSE LET s == CacheHas(c, BodyKey(k))
         IN  CASE s = "hit"   -> [status |-> "hit", stop |-> TRUE, sent |-> <<CachedResponse(c, k)>>]
               [] s = "stale" -> [status |-> "stale", stop |-> FALSE, sent |-> <<CachedResponse(c, k)>>]
               [] OTHER       -> [status |-> "miss", stop |-> FALSE, sent |-> << >>]

\* serve(res, rv)
serve(r) == [src |-> "render", statusCode |-> r.statusCode, headers |-> r.headers, body |-> r.body]

\* plainHandler(req, res)
PlainResponse == [src |-> "plain", statusCode |-> 404, headers |-> {}, body |-> EmptyBody]

-----------------------------------------------------------------------------
(* wrap: the listener *)

\* Line 87 forgotten: req.url keeps the filtered URL.
RestoreUrlForgotten(current, urlBeforeFilter) == current

\* Line 87: req.url = urlBeforeFilter.
RestoreUrl(current, urlBeforeFilter) == urlBeforeFilter

\* Lines 80-87 without line 81: the key and the rule match taken from the
\* URL as it arrived.
ClassifyUnfiltered(c, r) ==
    LET urlBeforeFilter == r.url
        filtered == r
        k == IF c.cacheKey # "none" THEN CacheKeyBuilder(filtered) ELSE UrlKey(filtered.url)
        m == matchRule(c, filtered)
    IN  [key |-> k, matched |-> m.matched, ttl |-> m.ttl,
         url |-> RestoreUrl(filtered.url, urlBeforeFilter)]

\* Lines 80-87: the key and the rule match, both taken while req.url holds
\* the filtered URL, and req.url as line 87 leaves it.
Classify(c, r) ==
    LET urlBeforeFilter == r.url
        filtered == [r EXCEPT !.url = filterUrl(r.url, c.paramFilter)]
        k == IF c.cacheKey # "none" THEN CacheKeyBuilder(filtered) ELSE UrlKey(filtered.url)
        m == matchRule(c, filtered)
    IN  [key |-> k, matched |-> m.matched, ttl |-> m.ttl,
         url |-> RestoreUrl(filtered.url, urlBeforeFilter)]

Startable(r) == pc[r] \in {"idle", "done", "failed"}

\* Lines 80-101. Over a torn entry serveCache either serves what is there or
\* throws.
Begin(r) ==
    /\ Startable(r)
    /\ \E q \in env.requests :
        LET cl == Classify(conf, q)
            sc == serveCache(cache, SYNC_LOCK, cl.key, q.forced)
        IN  /\ req' = [req EXCEPT ![r] = q]
            /\ key' = [key EXCEPT ![r] = cl.key]
            /\ ttl' = [ttl EXCEPT ![r] = cl.ttl]
            /\ rv' = [rv EXCEPT ![r] = NoResponse]
            /\ renders' = [renders EXCEPT ![r] = 0]
            /\ url' = [url EXCEPT ![r] = cl.url]
            /\ args' = [args EXCEPT ![r] =
                    IF ~cl.matched
                    THEN [to |-> "plain", path |-> cl.url, method |-> q.method]
                    ELSE NoArgs]
            /\ IF ~cl.matched
               THEN /\ pc' = [pc EXCEPT ![r] = "done"]
                    /\ status' = [status EXCEPT ![r] = "bypass"]
                    /\ stop' = [stop EXCEPT ![r] = FALSE]
                    /\ sent' = [sent EXCEPT ![r] = <<PlainResponse>>]
               ELSE \/ /\ pc' = [pc EXCEPT ![r] = "resolved"]
                       /\ status' = [status EXCEPT ![r] = sc.status]
                       /\ stop' = [stop EXCEPT ![r] = sc.stop]
                       /\ sent' = [sent EXCEPT ![r] = sc.sent]
                    \/ /\ ~q.forced /\ Torn(cache, cl.key)
                       /\ pc' = [pc EXCEPT ![r] = "failed"]
                       /\ status' = [status EXCEPT ![r] = sc.status]
                       /\ stop' = [stop EXCEPT ![r] = FALSE]
                       /\ sent' = [sent EXCEPT ![r] = << >>]
    /\ UNCHANGED <<conf, env, cache, SYNC_LOCK>>

\* Lines 102-109 with a test of the set before line 106: a request that
\* finds its key held returns without rendering.
AfterResolveSkipHeld(r) ==
    /\ pc[r] = "resolved"
    /\ IF stop[r] \/ key[r] \in SYNC_LOCK
       THEN /\ pc' = [pc EXCEPT ![r] = "done"]
            /\ UNCHANGED <<SYNC_LOCK, renders, args>>
       ELSE /\ SYNC_LOCK' = SYNC_LOCK \cup {key[r]}
            /\ args' = [args EXCEPT ![r] =
                    [to |-> "render", path |-> url[r], method |-> req[r].method]]
            /\ renders' = [renders EXCEPT ![r] = @ + 1]
            /\ pc' = [pc EXCEPT ![r] = "render"]
    /\ UNCHANGED <<conf, env, cache, req, key, ttl, status, stop, sent, rv, url>>

\* Lines 102-109 with a wait before line 106: a request that finds its key
\* held stays parked until the key is released.
AfterResolveWaitHeld(r) ==
    /\ pc[r] = "resolved"
    /\ stop[r] \/ key[r] \notin SYNC_LOCK
    /\ IF stop[r]
       THEN /\ pc' = [pc EXCEPT ![r] = "done"]
            /\ UNCHANGED <<SYNC_LOCK, renders, args>>
       ELSE /\ SYNC_LOCK' = SYNC_LOCK \cup {key[r]}
            /\ args' = [args EXCEPT ![r] =
                    [to |-> "render", path |-> url[r], method |-> req[r].method]]
            /\ renders' = [renders EXCEPT ![r] = @ + 1]
            /\ pc' = [pc EXCEPT ![r] = "render"]
    /\ UNCHANGED <<conf, env, cache, req, key, ttl, status, stop, sent, rv, url>>

\* Lines 102-109.
AfterResolve(r) ==
    /\ pc[r] = "resolved"
    /\ IF stop[r]
       THEN /\ pc' = [pc EXCEPT ![r] = "done"]
            /\ UNCHANGED <<SYNC_LOCK, renders, args>>
       ELSE /\ SYNC_LOCK' = SYNC_LOCK \cup {key[r]}
            /\ args' = [args EXCEPT ![r] =
                    [to |-> "render", path |-> url[r], method |-> req[r].method]]
            /\ renders' = [renders EXCEPT ![r] = @ + 1]
            /\ pc' = [pc EXCEPT ![r] = "render"]
    /\ UNCHANGED <<conf, env, cache, req, key, ttl, status, stop, sent, rv, url>>

\* Line 114 without its test of the status.
ServeRenderedAlways(st, resp) == <<serve(resp)>>

\* Line 114.
ServeRendered(st, resp) == IF st # "stale" THEN <<serve(resp)>> ELSE << >>

\* Lines 118-132 with line 127 passing no ttl: the header record gets the
\* store's default, here 0.
PersistHeaderNoTtl(c, cf, k, t, st, resp) ==
    IF resp.statusCode = 200 /\ BodyLength(resp.body) > 0
    THEN LET headersToSave == HeadersFilter(cf.headersFilter, resp.headers)
             buf == IF isZipped(headersToSave) THEN resp.body ELSE gzipSync(resp.body)
         IN  CacheSet(CacheSet(c, BodyKey(k), buf, t),
                      HeaderKey(k), toBuffer(headersToSave), 0)
    ELSE IF st = "force"
    THEN CacheDel(CacheDel(c, BodyKey(k)), HeaderKey(k))
    ELSE c

\* Lines 118-132 without line 131: only the body record is deleted.
PersistDelBodyOnly(c, cf, k, t, st, resp) ==
    IF resp.statusCode = 200 /\ BodyLength(resp.body) > 0
    THEN LET headersToSave == HeadersFilter(cf.headersFilter, resp.headers)
             buf == IF isZipped(headersToSave) THEN resp.body ELSE gzipSync(resp.body)
         IN  CacheSet(CacheSet(c, BodyKey(k), buf, t),
                      HeaderKey(k), toBuffer(headersToSave), t)
    ELSE IF st = "force"
    THEN CacheDel(c, BodyKey(k))
    ELSE c

\* Lines 118-132 with line 127 saving rv.headers instead of headersToSave.
PersistRawHeaders(c, cf, k, t, st, resp) ==
    IF resp.statusCode = 200 /\ BodyLength(resp.body) > 0
    THEN LET headersToSave == HeadersFilter(cf.headersFilter, resp.headers)
             buf == IF isZipped(headersToSave) THEN resp.body ELSE gzipSync(resp.body)
         IN  CacheSet(CacheSet(c, BodyKey(k), buf, t),
                      HeaderKey(k), toBuffer(resp.headers), t)
    ELSE IF st = "force"
    THEN CacheDel(CacheDel(c, BodyKey(k)), HeaderKey(k))
    ELSE c

\* Lines 118-132 without line 127: the header record is not set.
PersistSetBodyOnly(c, cf, k, t, st, resp) ==
    IF resp.statusCode = 200 /\ BodyLength(resp.body) > 0
    THEN LET headersToSave == HeadersFilter(cf.headersFilter, resp.headers)
             buf == IF isZipped(headersToSave) THEN resp.body ELSE gzipSync(resp.body)
         IN  CacheSet(c, BodyKey(k), buf, t)
    ELSE IF st = "force"
    THEN CacheDel(CacheDel(c, BodyKey(k)), HeaderKey(k))
    ELSE c

\* Lines 118-132.
Persist(c, cf, k, t, st, resp) ==
    IF resp.statusCode = 200 /\ BodyLength(resp.body) > 0
    THEN LET headersToSave == HeadersFilter(cf.headersFilter, resp.headers)
             buf == IF isZipped(headersToSave) THEN resp.body ELSE gzipSync(resp.body)
         IN  CacheSet(CacheSet(c, BodyKey(k), buf, t),
                      HeaderKey(k), toBuffer(headersToSave), t)
    ELSE IF st = "force"
    THEN CacheDel(CacheDel(c, BodyKey(k)), HeaderKey(k))
    ELSE c

\* Lines 112-132 without line 134: the key stays in the set.
RenderReturnNoRelease(r) ==
    /\ pc[r] = "render"
    /\ \E resp \in env.responses :
        /\ rv' = [rv EXCEPT ![r] = resp]
        /\ sent' = [sent EXCEPT ![r] = @ \o ServeRendered(status[r], resp)]
        /\ cache' = Persist(cache, conf, key[r], ttl[r], status[r], resp)
    /\ pc' = [pc EXCEPT ![r] = "done"]
    /\ UNCHANGED <<conf, env, SYNC_LOCK, req, key, ttl, status, stop, renders, url, args>>

\* Lines 112-134.
RenderReturn(r) ==
    /\ pc[r] = "render"
    /\ \E resp \in env.responses :
        /\ rv' = [rv EXCEPT ![r] = resp]
        /\ sent' = [sent EXCEPT ![r] = @ \o ServeRendered(status[r], resp)]
        /\ cache' = Persist(cache, conf, key[r], ttl[r], status[r], resp)
    /\ SYNC_LOCK' = SYNC_LOCK \ {key[r]}
    /\ pc' = [pc EXCEPT ![r] = "done"]
    /\ UNCHANGED <<conf, env, req, key, ttl, status, stop, renders, url, args>>

\* Lines 112-127 when a cache.set throws: the set of the body record (line
\* 126) or, after it, the set of the header record (line 127). Nothing
\* catches it, so lines 128-134 do not run and the listener rejects.
RenderReturnSetThrows(r) ==
    /\ pc[r] = "render"
    /\ \E resp \in env.responses, failing \in {"body", "header"} :
        /\ resp.statusCode = 200 /\ BodyLength(resp.body) > 0
        /\ rv' = [rv EXCEPT ![r] = resp]
        /\ sent' = [sent EXCEPT ![r] = @ \o ServeRendered(status[r], resp)]
        /\ LET headersToSave == HeadersFilter(conf.headersFilter, resp.headers)
               buf == IF isZipped(headersToSave) THEN resp.body ELSE gzipSync(resp.body)
           IN  cache' = IF failing = "body"
                        THEN cache
                        ELSE CacheSet(cache, BodyKey(key[r]), buf, ttl[r])
    /\ pc' = [pc EXCEPT ![r] = "failed"]
    /\ UNCHANGED <<conf, env, SYNC_LOCK, req, key, ttl, status, stop, renders, url, args>>

\* Line 109 when renderer.render rejects.
RenderThrow(r) ==
    /\ pc[r] = "render"
    /\ pc' = [pc EXCEPT ![r] = "failed"]
    /\ UNCHANGED <<conf, env, cache, SYNC_LOCK, req, key, ttl, status, stop, sent, rv, renders, url, args>>

-----------------------------------------------------------------------------

\* The state after CachedHandler has built the listener for one of ds.
Start(ds) ==
    /\ \E d \in ds : conf = d.conf /\ env = [requests |-> d.requests, responses |-> d.responses]
    /\ cache = << >>
    /\ SYNC_LOCK = {}
    /\ pc = [r \in Reqs |-> "idle"]
    /\ req = [r \in Reqs |-> NoRequest]
    /\ key = [r \in Reqs |-> NoKey]
    /\ ttl = [r \in Reqs |-> 0]
    /\ status = [r \in Reqs |-> "bypass"]
    /\ stop = [r \in Reqs |-> FALSE]
    /\ sent = [r \in Reqs |-> << >>]
    /\ rv = [r \in Reqs |-> NoResponse]
    /\ renders = [r \in Reqs |-> 0]
    /\ url = [r \in Reqs |-> NoRequest.url]
    /\ args = [r \in Reqs |-> NoArgs]

Init == Start(Deployments)

\* The deployments that configure a hook.
InitHooks == Start(HookDeployments)

Next ==
    \/ \E r \in Reqs : Begin(r)
    \/ \E r \in Reqs : AfterResolve(r)
    \/ \E r \in Reqs : RenderReturn(r)
    \/ \E r \in Reqs : RenderThrow(r)
    \/ Tick

Spec == Init /\ [][Next]_vars

SpecHooks == InitHooks /\ [][Next]_vars

\* The listener over a Cache Store whose set can throw.
NextStoreFail ==
    \/ \E r \in Reqs : Begin(r)
    \/ \E r \in Reqs : AfterResolve(r)
    \/ \E r \in Reqs : RenderReturn(r)
    \/ \E r \in Reqs : RenderReturnSetThrows(r)
    \/ \E r \in Reqs : RenderThrow(r)
    \/ Tick

InitStoreFail == Start({DeployDropUid})

SpecStoreFail == InitStoreFail /\ [][NextStoreFail]_vars

\* No render and no Cache Store call fails or hangs: every render returns,
\* and the event loop runs every continuation that is ready.
NextNoFail ==
    \/ \E r \in Reqs : Begin(r)
    \/ \E r \in Reqs : AfterResolve(r)
    \/ \E r \in Reqs : RenderReturn(r)
    \/ Tick

InitNoFail == Start({DeployTwoRules, DeployNoRules, DeployDropEncoding, DeployDropUid})

SpecNoFail ==
    /\ InitNoFail
    /\ [][NextNoFail]_vars
    /\ \A r \in Reqs :
        WF_vars(AfterResolve(r)) /\ WF_vars(RenderReturn(r))

\* One request's render never returns; every other render does, and the
\* event loop runs every continuation that is ready.
HungReq == CHOOSE r \in Reqs : TRUE

NextHang ==
    \/ \E r \in Reqs : Begin(r)
    \/ \E r \in Reqs : AfterResolve(r)
    \/ \E r \in Reqs \ {HungReq} : RenderReturn(r)
    \/ Tick

SpecHang ==
    /\ Init
    /\ [][NextHang]_vars
    /\ \A r \in Reqs \ {HungReq} :
        WF_vars(AfterResolve(r)) /\ WF_vars(RenderReturn(r))

-----------------------------------------------------------------------------
(* Vocabulary of the properties *)

\* The request is one the listener caches: GET or HEAD, and some rule's
\* pattern matches its URL.
Cacheable(q) ==
    /\ q.method \in {"GET", "HEAD"}
    /\ \E i \in 1..Len(conf.rules) : RegexTest(conf.rules[i].regex, q.url)

\* The TTL of the first rule that matches the URL.
RuleTtl(q) ==
    LET i == CHOOSE i \in 1..Len(conf.rules) :
                /\ RegexTest(conf.rules[i].regex, q.url)
                /\ \A j \in 1..(i - 1) : ~RegexTest(conf.rules[j].regex, q.url)
    IN  conf.rules[i].ttl

\* Request r is between the start and the return of renderer.render.
Rendering(r) == pc[r] = "render"

\* This step is the one in which r's render returns and its pipeline runs.
Completes(r) == pc[r] = "render" /\ pc'[r] = "done"

\* This step is the one in which a new request starts in slot r.
Begins(r) ==
    /\ Startable(r)
    /\ <<pc[r], req[r], key[r], status[r], sent[r], rv[r], renders[r]>>
         # <<pc'[r], req'[r], key'[r], status'[r], sent'[r], rv'[r], renders'[r]>>

Cached200(resp) == resp.statusCode = 200 /\ BodyLength(resp.body) > 0

Present(c, k) == BodyKey(k) \in DOMAIN c /\ HeaderKey(k) \in DOMAIN c
Absent(c, k) == BodyKey(k) \notin DOMAIN c /\ HeaderKey(k) \notin DOMAIN c

\* Some record was set or deleted in this step (time passing only ages
\* the records).
StoreWritten ==
    \/ DOMAIN cache' # DOMAIN cache
    \/ \E x \in DOMAIN cache \cap DOMAIN cache' :
        \/ cache'[x].value # cache[x].value
        \/ cache'[x].ttl # cache[x].ttl
        \/ cache'[x].age < cache[x].age

-----------------------------------------------------------------------------
(* Properties *)

\* C1: no two requests with the same cache key are both between the start
\* and the return of renderer.render.
C1_AtMostOneRenderPerKey ==
    \A r1, r2 \in Reqs :
        r1 # r2 /\ Rendering(r1) /\ Rendering(r2) => key[r1] # key[r2]

\* C2: a key is in the single-flight set only while a request that added it
\* is still in its pipeline: a request that has ended, also by a rejected
\* render, leaves no key behind.
C2_KeyReleasedWhateverTheOutcome ==
    \A k \in SYNC_LOCK : \E r \in Reqs : Rendering(r) /\ key[r] = k

\* C3: every request gets at most one response write; a stale request's one
\* write is the resolver's, from the cache, never the pipeline's.
C3_AtMostOneResponseWrite ==
    \A r \in Reqs :
        /\ Len(sent[r]) <= 1
        /\ status[r] = "stale" => Len(sent[r]) = 1 /\ sent[r][1].src = "cache"

C3_Witness ==
    \E r \in Reqs :
        /\ pc[r] = "done" /\ status[r] = "stale" /\ renders[r] = 1
        /\ Cached200(rv[r])
        /\ Len(sent[r]) = 1

\* C4: when a request's render returns 200 with a non-empty body, then at
\* the end of its pipeline body:<key> and header:<key> are both present,
\* freshly written with the same TTL, the TTL of the rule the request matched.
C4_RenderedPageIsCached ==
    [][\A r \in Reqs :
        Completes(r) /\ Cached200(rv'[r]) =>
            /\ Present(cache', key[r])
            /\ cache'[BodyKey(key[r])].ttl = RuleTtl(req[r])
            /\ cache'[HeaderKey(key[r])].ttl = RuleTtl(req[r])
            /\ cache'[BodyKey(key[r])].age = 0
            /\ cache'[HeaderKey(key[r])].age = 0]_vars

C4_Witness ==
    \E r1, r2 \in Reqs :
        /\ pc[r1] = "done" /\ status[r1] = "stale" /\ Cached200(rv[r1])
        /\ pc[r2] = "done" /\ status[r2] = "force" /\ Cached200(rv[r2])
        /\ key[r1] = key[r2]
        /\ Present(cache, key[r1])
        /\ cache[BodyKey(key[r1])].ttl = cache[HeaderKey(key[r1])].ttl

\* C5: when a forced request's render returns an empty body, then at the end
\* of its pipeline both records of the key are absent, and the caller has
\* received the render's response, with the render's status code.
C5_ForcedEmptyDeletes ==
    [][\A r \in Reqs :
        Completes(r) /\ req[r].forced /\ BodyLength(rv'[r].body) = 0 =>
            /\ Absent(cache', key[r])
            /\ Len(sent'[r]) = 1
            /\ sent'[r][1].src = "render"
            /\ sent'[r][1].statusCode = rv'[r].statusCode]_vars

\* The records existed before: another request was served from them.
C5_Witness ==
    \E r1, r2 \in Reqs :
        /\ pc[r1] = "done" /\ req[r1].forced /\ rv[r1] = R200E
        /\ sent[r1] = <<serve(R200E)>>
        /\ pc[r2] = "done" /\ status[r2] = "hit" /\ key[r2] = key[r1]
        /\ Absent(cache, key[r1])

\* C6: the pipeline sets both records when the render is 200 with a
\* non-empty body, deletes both when the status is force and the body is
\* empty, and in every other outcome leaves the store as it was.
C6_StoreChangesOnlyInTwoCases ==
    [][\A r \in Reqs :
        Completes(r) =>
            IF Cached200(rv'[r]) THEN Present(cache', key[r])
            ELSE IF status[r] = "force" /\ BodyLength(rv'[r].body) = 0
                 THEN Absent(cache', key[r])
                 ELSE cache' = cache]_vars

\* C7: a request that is not GET or HEAD, or whose URL matches no rule, gets
\* the plain handler's response at once; it never renders, and no step that
\* writes the store or changes the single-flight set is a step of such a
\* request.
C7_UnmatchedFallsThrough ==
    /\ [](\A r \in Reqs :
            pc[r] # "idle" /\ ~Cacheable(req[r]) =>
                pc[r] = "done" /\ renders[r] = 0 /\ sent[r] = <<PlainResponse>>)
    /\ [][\A r \in Reqs :
            Begins(r) /\ ~Cacheable(req'[r]) =>
                ~StoreWritten /\ SYNC_LOCK' = SYNC_LOCK]_vars
    /\ [][StoreWritten \/ SYNC_LOCK' # SYNC_LOCK =>
            \E r \in Reqs : pc'[r] # pc[r] /\ Cacheable(req[r])]_vars

C7_Witness ==
    /\ conf.rules # << >>
    /\ \E r1, r2 \in Reqs :
        /\ pc[r1] = "done" /\ req[r1].method = "POST" /\ sent[r1] = <<PlainResponse>>
        /\ pc[r2] = "done" /\ req[r2].method = "GET" /\ ~Cacheable(req[r2])
    /\ cache = << >>
    /\ SYNC_LOCK = {}

\* C8: a matched request with the forced-refresh header is resolved force
\* with stop = false and nothing written, and once past the resolver it has
\* invoked the Render Worker exactly once.
C8_ForcedAlwaysRenders ==
    \A r \in Reqs :
        pc[r] # "idle" /\ req[r].forced /\ Cacheable(req[r]) =>
            /\ status[r] = "force" /\ ~stop[r]
            /\ pc[r] = "resolved" => renders[r] = 0 /\ sent[r] = << >>
            /\ pc[r] # "resolved" => renders[r] = 1

\* A forced request renders although its key is fresh in the store and
\* held by another request.
C8_Witness ==
    \E r1, r2 \in Reqs :
        /\ r1 # r2
        /\ pc[r1] = "render" /\ pc[r2] = "render" /\ key[r1] = key[r2]
        /\ req[r2].forced /\ renders[r2] = 1
        /\ CacheHas(cache, BodyKey(key[r2])) = "hit"

\* What an unforced request for key k would be answered if it started in the
\* state this step leaves.
NextUnforced(k) == serveCache(cache', SYNC_LOCK', k, FALSE)

\* C9: once an unforced request that missed has completed with a 200,
\* non-empty render, an unforced request for the same key that starts next,
\* within the TTL, is classified hit with stop = true and receives the same
\* body as the first; a request classified hit does nothing more: no
\* render, no store write, no change of the single-flight set.
C9_SecondCallIsHitWithSameBody ==
    /\ [][\A r \in Reqs :
            Completes(r) /\ ~req[r].forced /\ status[r] = "miss" /\ Cached200(rv'[r]) =>
                /\ NextUnforced(key[r]).status = "hit"
                /\ NextUnforced(key[r]).stop
                /\ Len(NextUnforced(key[r]).sent) = 1
                /\ ClientText(NextUnforced(key[r]).sent[1]) = ClientText(sent'[r][1])]_vars
    /\ [][\A r \in Reqs :
            pc[r] = "resolved" /\ status[r] = "hit" /\ pc'[r] # pc[r] =>
                /\ pc'[r] = "done" /\ renders'[r] = 0
                /\ ~StoreWritten /\ SYNC_LOCK' = SYNC_LOCK]_vars

\* C10: an unforced request that finds its key's entry present with the TTL
\* elapsed is classified stale and answered with the cached body before any
\* render; it then invokes the Render Worker; and when the render is 200
\* with a non-empty body both records are replaced so that an unforced
\* request that starts next is a hit that receives the rendered content.
C10_StaleServesThenRefreshes ==
    /\ [][\A r \in Reqs :
            /\ Begins(r) /\ ~req'[r].forced /\ Cacheable(req'[r])
            /\ CacheHas(cache, BodyKey(key'[r])) = "stale"
            => /\ status'[r] = "stale" /\ ~stop'[r] /\ renders'[r] = 0
               /\ sent'[r] = <<CachedResponse(cache, key'[r])>>]_vars
    /\ [][\A r \in Reqs :
            pc[r] = "resolved" /\ status[r] = "stale" /\ pc'[r] # pc[r] =>
                pc'[r] = "render" /\ renders'[r] = 1]_vars
    /\ [][\A r \in Reqs :
            Completes(r) /\ status[r] = "stale" /\ Cached200(rv'[r]) =>
                /\ Present(cache', key[r])
                /\ NextUnforced(key[r]).status = "hit"
                /\ ClientText(NextUnforced(key[r]).sent[1]) = ClientText(serve(rv'[r]))]_vars

-----------------------------------------------------------------------------
(* Hooks *)

\* The parameters of a query that conf.paramFilter accepts.
Kept(q) == SelectSeq(q, LAMBDA p : ParamFilter(conf.paramFilter, p.n))

\* Two URLs that differ only in parameters conf.paramFilter rejects.
SameButRejected(u1, u2) == u1.path = u2.path /\ Kept(u1.q) = Kept(u2.q)

\* C11: without a cacheKey override, a request whose URL differs from an
\* earlier request's URL only in parameters the paramFilter rejects gets the
\* same key, the same rule-match decision and the same TTL; and when the
\* earlier one's render was cached and the entry is still fresh, the later
\* one, unforced, is a hit served from that entry.
C11_RejectedParamsShareTheEntry ==
    [][\A r \in Reqs : \A o \in Reqs \ {r} :
        ( /\ Begins(r)
          /\ conf.cacheKey = "none"
          /\ pc[o] # "idle"
          /\ req[o].method = req'[r].method
          /\ SameButRejected(req[o].url, req'[r].url) )
        => /\ key'[r] = key[o]
           /\ ttl'[r] = ttl[o]
           /\ (status'[r] = "bypass") <=> (status[o] = "bypass")
           /\ ( /\ ~req'[r].forced
                /\ pc[o] = "done" /\ Cached200(rv[o])
                /\ CacheHas(cache, BodyKey(key[o])) = "hit" )
              => /\ status'[r] = "hit"
                 /\ sent'[r] = <<CachedResponse(cache, key[o])>>]_vars

\* A request was answered from the entry that a request with another value
\* of the rejected parameter had cached.
C11_Witness ==
    \E r, o \in Reqs :
        /\ conf.paramFilter = "dropP1" /\ conf.cacheKey = "none"
        /\ req[r].url # req[o].url
        /\ SameButRejected(req[r].url, req[o].url)
        /\ pc[o] = "done" /\ Cached200(rv[o])
        /\ pc[r] = "done" /\ status[r] = "hit" /\ key[r] = key[o]
        /\ Len(sent[r]) = 1 /\ sent[r][1].src = "cache"

\* C12: on every path (unmatched, miss, stale, force) the request carries
\* the URL it arrived with once the key has been taken: the fallthrough
\* handler is called with that URL and the path of the render request is
\* that URL, whatever the paramFilter removed for the key.
C12_OriginalUrlIsHandedOn ==
    \A r \in Reqs :
        pc[r] # "idle" =>
            /\ url[r] = req[r].url
            /\ (pc[r] = "done" /\ status[r] = "bypass") => args[r].to = "plain"
            /\ pc[r] \in {"render", "failed"} => args[r].to = "render"
            /\ (pc[r] = "done" /\ renders[r] > 0) => args[r].to = "render"
            /\ args[r].to # "none" =>
                /\ args[r].path = req[r].url
                /\ args[r].method = req[r].method

\* A stale request is rendering with its full URL under a key that lacks the
\* rejected parameter, next to a request that fell through with its full URL.
C12_Witness ==
    \E r, o \in Reqs :
        /\ pc[r] = "render" /\ status[r] = "stale"
        /\ key[r].url # req[r].url
        /\ args[r] = [to |-> "render", path |-> req[r].url, method |-> "GET"]
        /\ pc[o] = "done" /\ status[o] = "bypass"
        /\ filterUrl(req[o].url, conf.paramFilter) # req[o].url
        /\ args[o] = [to |-> "plain", path |-> req[o].url, method |-> "GET"]

\* C13: with a cacheKey override, the key of a request is what the
\* key-builder returns for the full request as it arrived, parameters the
\* paramFilter rejects included.
C13_KeyBuilderSeesFullRequest ==
    \A r \in Reqs :
        (conf.cacheKey # "none" /\ pc[r] # "idle") =>
            key[r] = CacheKeyBuilder(req[r])

\* C14: with a headersFilter, the header record a cached render leaves under
\* header:<key> is the filter's output for the render headers, and the
\* response the same request sends from the render carries the render
\* headers as the Render Worker gave them.
C14_FilteredHeadersStoredRawHeadersSent ==
    [][\A r \in Reqs :
        (Completes(r) /\ conf.headersFilter # "none") =>
            /\ Cached200(rv'[r]) =>
                /\ HeaderKey(key[r]) \in DOMAIN cache'
                /\ cache'[HeaderKey(key[r])].value
                     = toBuffer(HeadersFilter(conf.headersFilter, rv'[r].headers))
            /\ status[r] # "stale" =>
                /\ Len(sent'[r]) = Len(sent[r]) + 1
                /\ sent'[r][Len(sent'[r])].src = "render"
                /\ sent'[r][Len(sent'[r])].headers = rv'[r].headers]_vars

\* A render with an x-uid header was sent with it and stored without it.
C14_Witness ==
    \E r \in Reqs :
        /\ conf.headersFilter = "dropUid"
        /\ pc[r] = "done" /\ rv[r] = R200A
        /\ Len(sent[r]) = 1 /\ sent[r][1].src = "render"
        /\ "x-uid" \in sent[r][1].headers
        /\ HeaderKey(key[r]) \in DOMAIN cache
        /\ cache[HeaderKey(key[r])].value = toBuffer({})

\* C15: the bytes a cached render leaves under body:<key> are the gzip of
\* the render body, unless the render headers as the Render Worker gave them
\* declare a content encoding, and then they are the render body itself;
\* whatever the headersFilter removes from the persisted headers.
C15_StoredBodyFollowsRenderEncoding ==
    [][\A r \in Reqs :
        (Completes(r) /\ Cached200(rv'[r])) =>
            /\ BodyKey(key[r]) \in DOMAIN cache'
            /\ cache'[BodyKey(key[r])].value
                 = IF isZipped(rv'[r].headers)
                   THEN rv'[r].body
                   ELSE gzipSync(rv'[r].body)]_vars

-----------------------------------------------------------------------------
(* Concurrency *)

\* C16: in every state between the listener's steps, whatever requests are
\* in flight, the body record of a key is there exactly when its header
\* record is, and the two were written together from one render response:
\* same TTL, same age, the body's text and the persisted headers of one
\* cacheable response of the Render Worker.
C16_BodyAndHeaderGoTogether ==
    \A x \in DOMAIN cache :
        LET k == x[2]
            b == cache[BodyKey(k)]
            h == cache[HeaderKey(k)]
        IN  /\ Present(cache, k)
            /\ b.ttl = h.ttl
            /\ b.age = h.age
            /\ \E resp \in env.responses :
                /\ Cached200(resp)
                /\ b.value.data = resp.body.data
                /\ h.value = toBuffer(HeadersFilter(conf.headersFilter, resp.headers))

\* A forced request is rendering a key whose entry another request wrote.
C16_Witness ==
    \E r, o \in Reqs :
        /\ r # o /\ key[r] = key[o]
        /\ pc[o] = "done" /\ Cached200(rv[o])
        /\ pc[r] = "render" /\ status[r] = "force"
        /\ Present(cache, key[r])

\* C17: whenever a request is between the start of its render and the end
\* of its pipeline, its key is in the single-flight set, also when several
\* requests for that key are in flight.
C17_KeyHeldWhileRendering ==
    \A r \in Reqs : Rendering(r) => key[r] \in SYNC_LOCK

C19_FailedWriteLeavesNoTrace ==
    [][\A r \in Reqs :
        (pc[r] = "render" /\ pc'[r] = "failed" /\ rv'[r] # NoResponse) =>
            /\ status[r] # "stale" => sent'[r] = sent[r] \o <<serve(rv'[r])>>
            /\ ~StoreWritten
            /\ key[r] \notin SYNC_LOCK']_vars

\* Request r has been resolved and has not reached the end of its pipeline.
InFlight(r) == pc[r] \in {"resolved", "render"}

\* C20: when no render and no Cache Store call fails or hangs, every matched
\* request in flight eventually finishes, and in every state with no request
\* in flight the single-flight set is empty.
C20_QuiescentMeansNoKeyHeld ==
    /\ \A r \in Reqs : InFlight(r) ~> (pc[r] = "done")
    /\ []((\A r \in Reqs : ~InFlight(r)) => SYNC_LOCK = {})

\* Two requests missed the same key, both rendered it and both finished; no
\* request is in flight and no key is held.
C20_Witness ==
    \E r, o \in Reqs :
        /\ r # o /\ key[r] = key[o]
        /\ pc[r] = "done" /\ status[r] = "miss" /\ renders[r] = 1 /\ Cached200(rv[r])
        /\ pc[o] = "done" /\ status[o] = "miss" /\ renders[o] = 1 /\ Cached200(rv[o])
        /\ \A x \in Reqs : ~InFlight(x)
        /\ SYNC_LOCK = {}

====
